---- MODULE Spec2Model ----
(***************************************************************************)
(* A model of query.py: the Timestream query script.                       *)
(*                                                                         *)
(*   parse_row  (lines 49-57)  flattens one wire row into a dict           *)
(*   run_query  (lines 60-81)  drives the paginated client.query loop      *)
(*   main       (lines 84-99)  runs the query and emits the rows as JSON   *)
(*                                                                         *)
(* Python dicts are functions with a domain of strings, lists are          *)
(* sequences, None is the value None below.  A call either returns a       *)
(* value or raises: its outcome is Return(v) or Raise(e).  A variable that *)
(* is not assigned yet is Unbound, an assigned one is Bound(v).            *)
(***************************************************************************)
EXTENDS Integers, Sequences, FiniteSets, TLC

\* ------------------------------------------------------------------ bounds
\* The longest ColumnInfo list of a page.
MaxCols == 2
\* The longest Data list of a row.
MaxCells == 2
\* The number of responses after which the bounded collaborator ends the
\* result stream (the program itself has no such cap).
MaxPages == 3

\* ------------------------------------------------------------ Python values
None == "<None>"
EmptyDict == [k \in {} |-> None]
Unbound == <<>>
Bound(v) == <<v>>
Val(o) == o[1]

Return(v) == [raised |-> FALSE, value |-> v]
Raise(e) == [raised |-> TRUE, value |-> e]

Min(a, b) == IF a < b THEN a ELSE b

\* d.get(k, default)
Get(d, k, default) == IF k \in DOMAIN d THEN d[k] ELSE default

\* d[k] = v on a copy of d
Put(d, k, v) == [j \in DOMAIN d \cup {k} |-> IF j = k THEN v ELSE d[j]]

\* bool(v) of a string or None
TruthyNotNone(v) == v # None
Truthy(v) == v \notin {None, ""}

\* All sequences over S of length 0..n.
SeqsUpTo(S, n) == UNION {[1..m -> S] : m \in 0..n}

\* ---------------------------------------------------------------- wire data
Names == {"a", "b"}
Scalars == {"x", "y"}

\* A column descriptor: {'Name': n}, or one without a Name.
Descriptors == {EmptyDict} \cup {[Name |-> n] : n \in Names}
\* A cell (Datum): {'ScalarValue': s}, {'NullValue': True}, or {}.
Cells == {EmptyDict, [NullValue |-> TRUE]} \cup {[ScalarValue |-> s] : s \in Scalars}
\* A row: {'Data': [cells]}, or one without Data.
WireRows == {EmptyDict} \cup {[Data |-> d] : d \in SeqsUpTo(Cells, MaxCells)}
ColumnLists == SeqsUpTo(Descriptors, MaxCols)

\* ---------------------------------------------------------------- parse_row
\* The loop of lines 54-56 from position k on: zip stops at the shorter list.
RECURSIVE ZipLoop(_, _, _, _)
ZipLoop(column_info, data, k, result) ==
    IF k > Min(Len(column_info), Len(data))
    THEN result
    ELSE LET info == column_info[k]
             cell == data[k]
             col_name == Get(info, "Name", None)
         IN  ZipLoop(column_info, data, k + 1,
                     Put(result, col_name, Get(cell, "ScalarValue", None)))

\* Mutant: itertools.zip_longest in place of zip (missing cells read as {}).
RECURSIVE ZipLongestLoop(_, _, _, _)
ZipLongestLoop(column_info, data, k, result) ==
    IF k > Len(column_info)
    THEN result
    ELSE LET info == column_info[k]
             cell == IF k <= Len(data) THEN data[k] ELSE EmptyDict
             col_name == Get(info, "Name", None)
         IN  ZipLongestLoop(column_info, data, k + 1,
                            Put(result, col_name, Get(cell, "ScalarValue", None)))

parse_row_zip_longest(row, column_info) ==
    Return(ZipLongestLoop(column_info, Get(row, "Data", <<>>), 1, EmptyDict))

\* Mutant: info['Name'] in place of info.get('Name'): KeyError on a
\* descriptor without a Name.
parse_row_subscript(row, column_info) ==
    LET data == Get(row, "Data", <<>>)
        n == Min(Len(column_info), Len(data))
    IN  IF \E k \in 1..n : "Name" \notin DOMAIN column_info[k]
        THEN Raise("KeyError")
        ELSE Return(ZipLoop(column_info, data, 1, EmptyDict))

parse_row(row, column_info) ==
    Return(ZipLoop(column_info, Get(row, "Data", <<>>), 1, EmptyDict))

\* ------------------------------------------------------------------- state
VARIABLES
    args,        \* parse_args(): [query, output]
    pc,          \* the statement the program is at
    next_token,  \* run_query: the pagination cursor
    all_rows,    \* run_query: the ResultSet being accumulated
    params,      \* run_query: the keyword arguments of the latest request
    response,    \* run_query: the latest response
    i,           \* run_query: position of the for loop in response['Rows']
    rows,        \* main: what run_query returned
    e,           \* main: the exception caught at line 90
    stdout, stderr, file, status,
    calls,       \* history: the number of client.query calls made
    requests,    \* history: the requests sent, in order
    responses,   \* history: the responses received, in order
    raised,      \* history: what client.query raised
    outstanding, \* history: the number of calls issued and not yet answered
    fl_row, fl_cols, fl_out, fl_prev, fl_calls  \* a direct call of parse_row

run_vars == <<args, pc, next_token, all_rows, params, response, i, rows, e,
              stdout, stderr, file, status, calls, requests, responses,
              raised, outstanding>>
hist == <<calls, requests, responses, raised, outstanding>>
fl_vars == <<fl_row, fl_cols, fl_out, fl_prev, fl_calls>>
vars == <<run_vars, fl_vars>>

\* ------------------------------------------------------------- collaborator
Queries == {"q1", "q2"}
OutputArgs == {None, "", "out.json"}
TokenValues == {None, "", "t1", "t2"}
ClientErrors == {"ThrottlingException", "AccessDeniedException"}

Cell(s) == [ScalarValue |-> s]
Col(n) == [Name |-> n]

\* The pages the modelled service returns (a response less its NextToken).
PageAligned == [ColumnInfo |-> <<Col("a"), Col("b")>>,
                Rows |-> <<[Data |-> <<Cell("x"), Cell("y")>>]>>]
PageRepeated == [ColumnInfo |-> <<Col("b"), Col("b")>>,
                 Rows |-> <<[Data |-> <<Cell("y"), Cell("x")>>],
                            [Data |-> <<Cell("y")>>]>>]
PageRagged == [ColumnInfo |-> <<EmptyDict>>,
               Rows |-> <<EmptyDict,
                          [Data |-> <<[NullValue |-> TRUE], Cell("x")>>]>>]
PageNoRows == [ColumnInfo |-> <<Col("a"), Col("b")>>, Rows |-> <<>>]
PagePool == {PageAligned, PageRepeated, PageRagged, PageNoRows, EmptyDict}

\* A cursor that says more pages follow.
NonEmptyToken(v) == v \notin {None, ""}

\* A response: the page, with NextToken set unless the field is left out.
WithToken(page, tok) == Put(page, "NextToken", tok)
ResponsesOf(pages, more) ==
    pages \cup {WithToken(p, t) : p \in pages,
                                 t \in {v \in TokenValues : more \/ ~NonEmptyToken(v)}}

\* client.query as called for the n-th time: every outcome it may have.
\* The bounded service ends the result stream with its MaxPages-th response.
BoundedClient(n) ==
    {Return(r) : r \in ResponsesOf(PagePool, n < MaxPages)}
        \cup {Raise(x) : x \in ClientErrors}

\* The unbounded service may return a cursor on every page, for ever; past
\* its first response its pages carry no rows.
EndlessClient(n) ==
    {Return(r) : r \in ResponsesOf(IF n <= 1 THEN {PageAligned, PageNoRows}
                                            ELSE {PageNoRows}, TRUE)}
        \cup {Raise(x) : x \in ClientErrors}

\* ----------------------------------------------------------------- run_query
\* Lines 68-70.
BuildParamsNoToken(query_string, token) == [QueryString |-> query_string]
BuildParams(query_string, token) ==
    IF Truthy(token)
    THEN [QueryString |-> query_string, NextToken |-> token]
    ELSE [QueryString |-> query_string]

column_info == Get(Val(response), "ColumnInfo", <<>>)
response_rows == Get(Val(response), "Rows", <<>>)

\* all_rows.append(x)
Prepend(list, x) == <<x>> \o list
ListAppend(list, x) == Append(list, x)

\* The for loop of line 74 has no row left.
ForDoneAfterFirst(k, list) == k > Min(1, Len(list))
ForDone(k, list) == k > Len(list)

\* Line 78: `if not next_token: break`.
Breaks(token) == ~Truthy(token)

\* An exception leaves run_query (it has no handler) and reaches line 90.
SwallowAndReturn(err) ==
    /\ rows' = Bound(all_rows)
    /\ pc' = "emit"
    /\ UNCHANGED e
Propagate(err) ==
    /\ e' = Bound(err)
    /\ pc' = "except"
    /\ UNCHANGED rows

\* Line 89 calls run_query; lines 64-65.
RunQuery ==
    /\ pc = "main"
    /\ next_token' = None
    /\ all_rows' = <<>>
    /\ pc' = "loop"
    /\ UNCHANGED <<args, params, response, i, rows, e, stdout, stderr, file,
                   status, hist, fl_vars>>

\* Lines 68-71: the request is built and client.query is called.
QueryCall ==
    /\ pc = "loop"
    /\ params' = Bound(BuildParams(args.query, next_token))
    \* The histories are kept up to MaxPages entries (calls: MaxPages + 1),
    \* which the bounded service never exceeds.
    /\ calls' = IF calls <= MaxPages THEN calls + 1 ELSE calls
    /\ requests' = IF Len(requests) < MaxPages
                   THEN Append(requests, Val(params')) ELSE requests
    /\ outstanding' = outstanding + 1
    /\ pc' = "wait"
    /\ UNCHANGED <<args, next_token, all_rows, response, i, rows, e, stdout,
                   stderr, file, status, responses, raised, fl_vars>>

\* Line 71: client.query returns a response; line 73.
QueryReturn(outcomes) ==
    /\ pc = "wait"
    /\ \E o \in outcomes :
          /\ ~o.raised
          /\ response' = Bound(o.value)
          /\ responses' = IF Len(responses) < MaxPages
                          THEN Append(responses, o.value) ELSE responses
    /\ outstanding' = outstanding - 1
    /\ i' = 1
    /\ pc' = "for"
    /\ UNCHANGED <<args, next_token, all_rows, params, rows, e, stdout,
                   stderr, file, status, calls, requests, raised, fl_vars>>

\* Line 71: client.query raises.
QueryRaise(outcomes) ==
    /\ pc = "wait"
    /\ \E o \in outcomes :
          /\ o.raised
          /\ raised' = Bound(o.value)
          /\ Propagate(o.value)
    /\ outstanding' = outstanding - 1
    /\ UNCHANGED <<args, next_token, all_rows, params, response, i, stdout,
                   stderr, file, status, calls, requests, responses, fl_vars>>

\* Lines 74-75, one iteration.
ForRow ==
    /\ pc = "for"
    /\ ~ForDone(i, response_rows)
    /\ LET o == parse_row(response_rows[i], column_info)
       IN  IF o.raised
           THEN Propagate(o.value) /\ UNCHANGED <<all_rows, i>>
           ELSE /\ all_rows' = ListAppend(all_rows, o.value)
                /\ i' = i + 1
                /\ UNCHANGED <<pc, rows, e>>
    /\ UNCHANGED <<args, next_token, params, response, stdout, stderr, file,
                   status, hist, fl_vars>>

\* Mutant: the loop gives up after its second request.
NextTokenStepCapped ==
    /\ pc = "for"
    /\ ForDone(i, response_rows)
    /\ next_token' = Get(Val(response), "NextToken", None)
    /\ pc' = IF Breaks(next_token') \/ calls >= 2 THEN "return" ELSE "loop"
    /\ UNCHANGED <<args, all_rows, params, response, i, rows, e, stdout,
                   stderr, file, status, hist, fl_vars>>

\* Lines 77-79, once the for loop is over.
NextTokenStep ==
    /\ pc = "for"
    /\ ForDone(i, response_rows)
    /\ next_token' = Get(Val(response), "NextToken", None)
    /\ pc' = IF Breaks(next_token') THEN "return" ELSE "loop"
    /\ UNCHANGED <<args, all_rows, params, response, i, rows, e, stdout,
                   stderr, file, status, hist, fl_vars>>

\* Line 81, and the assignment of line 89.
ReturnRows ==
    /\ pc = "return"
    /\ rows' = Bound(all_rows)
    /\ pc' = "emit"
    /\ UNCHANGED <<args, next_token, all_rows, params, response, i, e, stdout,
                   stderr, file, status, hist, fl_vars>>

\* ---------------------------------------------------------------------- main
\* json.dumps(rows, indent=2): None is written null, a string in quotes;
\* a key that is None is written "null".
JsonKey(k) == IF k = None THEN "null" ELSE k
JsonValue(v) == IF v = None THEN "null" ELSE "\"" \o v \o "\""
JsonObject(d) ==
    [k \in {JsonKey(j) : j \in DOMAIN d} |->
        JsonValue(d[CHOOSE j \in DOMAIN d : JsonKey(j) = k])]
JsonDumps(list) == [json |-> [n \in 1..Len(list) |-> JsonObject(list[n])]]

ErrorLine(err) == [text |-> "Error running query: " \o err]
WrittenLine(path) == [text |-> "Results written to " \o path]
Traceback(err) == [traceback |-> err]

\* Lines 90-92.
Except ==
    /\ pc = "except"
    /\ stderr' = Append(stderr, ErrorLine(Val(e)))
    /\ status' = Bound(1)
    /\ pc' = "exit"
    /\ UNCHANGED <<args, next_token, all_rows, params, response, i, rows, e,
                   stdout, file, hist, fl_vars>>

\* Lines 94-99.  open() or the write may fail: the OSError is not caught,
\* the interpreter prints the traceback and exits with status 1.
Emit ==
    /\ pc = "emit"
    /\ \/ /\ Truthy(args.output)
          /\ file' = Bound(JsonDumps(Val(rows)))
          /\ stdout' = Append(stdout, WrittenLine(args.output))
          /\ status' = Bound(0)
          /\ UNCHANGED stderr
       \/ /\ Truthy(args.output)
          /\ stderr' = Append(stderr, Traceback("OSError"))
          /\ status' = Bound(1)
          /\ UNCHANGED <<file, stdout>>
       \/ /\ ~Truthy(args.output)
          /\ stdout' = Append(stdout, JsonDumps(Val(rows)))
          /\ status' = Bound(0)
          /\ UNCHANGED <<file, stderr>>
    /\ pc' = "exit"
    /\ UNCHANGED <<args, next_token, all_rows, params, response, i, rows, e,
                   hist, fl_vars>>

\* --------------------------------------------------------- the program runs
FlIdle ==
    /\ fl_row = EmptyDict
    /\ fl_cols = <<>>
    /\ fl_out = Return(EmptyDict)
    /\ fl_prev = Return(EmptyDict)
    /\ fl_calls = 0

\* main after parse_args() and get_client(), lines 85-86.
Init ==
    /\ args \in [query : Queries, output : OutputArgs]
    /\ pc = "main"
    /\ next_token = None
    /\ all_rows = <<>>
    /\ params = Unbound
    /\ response = Unbound
    /\ i = 0
    /\ rows = Unbound
    /\ e = Unbound
    /\ stdout = <<>>
    /\ stderr = <<>>
    /\ file = Unbound
    /\ status = Unbound
    /\ calls = 0
    /\ requests = <<>>
    /\ responses = <<>>
    /\ raised = Unbound
    /\ outstanding = 0
    /\ FlIdle

Next ==
    \/ RunQuery
    \/ QueryCall
    \/ QueryReturn(BoundedClient(calls))
    \/ QueryRaise(BoundedClient(calls))
    \/ ForRow
    \/ NextTokenStep
    \/ ReturnRows
    \/ Except
    \/ Emit

Spec == Init /\ [][Next]_vars

\* The same program against the service that need not end the stream.  Every
\* call of client.query returns or raises and the program is sequential, so
\* a step that can be taken is taken.
NextLive ==
    \/ RunQuery
    \/ QueryCall
    \/ QueryReturn(EndlessClient(calls))
    \/ QueryRaise(EndlessClient(calls))
    \/ ForRow
    \/ NextTokenStep
    \/ ReturnRows
    \/ Except
    \/ Emit

SpecLive == Init /\ [][NextLive]_vars /\ WF_vars(NextLive)

\* ------------------------------------------------- parse_row called directly
RunIdle ==
    /\ args = [query |-> "q1", output |-> None]
    /\ pc = "parse_row"
    /\ next_token = None
    /\ params = Unbound
    /\ response = Unbound
    /\ i = 0
    /\ rows = Unbound
    /\ e = Unbound
    /\ stdout = <<>>
    /\ stderr = <<>>
    /\ file = Unbound
    /\ status = Unbound
    /\ calls = 0
    /\ requests = <<>>
    /\ responses = <<>>
    /\ raised = Unbound
    /\ outstanding = 0

InitFlatten ==
    /\ RunIdle
    /\ all_rows \in {<<>>, <<[a |-> "x"]>>}
    /\ fl_row \in WireRows
    /\ fl_cols \in ColumnLists
    /\ fl_out = Return(EmptyDict)
    /\ fl_prev = Return(EmptyDict)
    /\ fl_calls = 0

\* parse_row(fl_row, fl_cols), called up to twice on the same arguments.
FlattenCall ==
    /\ fl_calls < 2
    /\ fl_out' = parse_row(fl_row, fl_cols)
    /\ fl_prev' = fl_out
    /\ fl_calls' = fl_calls + 1
    /\ UNCHANGED <<fl_row, fl_cols, run_vars>>

NextFlatten == FlattenCall

SpecFlatten == InitFlatten /\ [][NextFlatten]_vars

\* ------------------------------------------------------ what the claims say
\* The response carries a non-empty NextToken.
HasCursor(r) == "NextToken" \in DOMAIN r /\ r["NextToken"] \notin {None, ""}

NameOf(info) == IF "Name" \in DOMAIN info THEN info["Name"] ELSE None
ScalarOf(cell) == IF "ScalarValue" \in DOMAIN cell THEN cell["ScalarValue"] ELSE None
CellsOf(row) == IF "Data" \in DOMAIN row THEN row["Data"] ELSE <<>>
ColumnsOf(r) == IF "ColumnInfo" \in DOMAIN r THEN r["ColumnInfo"] ELSE <<>>
RowsOf(r) == IF "Rows" \in DOMAIN r THEN r["Rows"] ELSE <<>>

\* The rows of the pages, in page order and row order, each with the
\* ColumnInfo of its page.
RECURSIVE RowSources(_)
RowSources(pages) ==
    IF pages = <<>>
    THEN <<>>
    ELSE LET r == pages[Len(pages)]
         IN  RowSources(SubSeq(pages, 1, Len(pages) - 1))
                 \o [k \in 1..Len(RowsOf(r)) |->
                        [columns |-> ColumnsOf(r), row |-> RowsOf(r)[k]]]

\* flatten over all rows of all pages.
FlattenPages(pages) ==
    LET src == RowSources(pages)
    IN  [k \in 1..Len(src) |-> parse_row(src[k].row, src[k].columns).value]

IsPrefix(s, t) == Len(s) <= Len(t) /\ SubSeq(t, 1, Len(s)) = s

Returned == pc \in {"emit", "exit"} /\ rows # Unbound

\* C1: when run_query has returned, having received N responses, it made
\* exactly N calls, exactly the first N-1 responses carried a non-empty
\* NextToken, and what it returned is the concatenation, in page order and
\* row order, of flatten(row, ColumnInfo of the row's page).
C1_PaginationComplete ==
    Returned =>
        /\ calls = Len(responses)
        /\ calls >= 1
        /\ \A k \in 1..Len(responses) :
              HasCursor(responses[k]) <=> k < Len(responses)
        /\ Val(rows) = FlattenPages(responses)

\* Pages [r1], [r2, r3], [] were fetched with three calls and three rows
\* were returned.
C1_Witness ==
    /\ Returned
    /\ calls = 3
    /\ Len(responses) = 3
    /\ Len(RowsOf(responses[1])) = 1
    /\ Len(RowsOf(responses[2])) = 2
    /\ Len(RowsOf(responses[3])) = 0
    /\ Len(Val(rows)) = 3

\* C2: when the rows of a response are done, run_query goes to its return
\* exactly when the response carries no non-empty NextToken, and to the next
\* request otherwise, whatever the Rows of the response are.
C2_StopRule ==
    [][(pc = "for" /\ pc' # "for") =>
          /\ pc' \in {"return", "loop"}
          /\ (pc' = "return") <=> ~HasCursor(Val(response))
          /\ (pc' = "loop") <=> HasCursor(Val(response))]_vars

\* A page without rows but with a cursor was followed by a second request,
\* and the second response, with rows and without a NextToken field, ended
\* the loop.
C2_Witness ==
    /\ pc = "return"
    /\ calls = 2
    /\ Len(responses) = 2
    /\ RowsOf(responses[1]) = <<>>
    /\ HasCursor(responses[1])
    /\ RowsOf(responses[2]) # <<>>
    /\ "NextToken" \notin DOMAIN responses[2]

\* C3: once client.query has raised, on whichever call, the run is in its
\* error outcome with the exception the collaborator raised, that call was
\* the last one, nothing was returned to main and no JSON was printed or
\* written; the run ends with the error line and status 1.
C3_FailurePropagates ==
    raised # Unbound =>
        /\ pc \in {"except", "exit"}
        /\ e = raised
        /\ rows = Unbound
        /\ stdout = <<>>
        /\ file = Unbound
        /\ calls = Len(responses) + 1
        /\ outstanding = 0
        /\ pc = "exit" =>
              /\ status = Bound(1)
              /\ stderr = <<ErrorLine(Val(raised))>>

\* The second or a later call raised after earlier pages had delivered rows.
C3_Witness ==
    /\ raised # Unbound
    /\ pc = "exit"
    /\ Len(responses) >= 1
    /\ Len(all_rows) >= 1

\* C4: the first request carries QueryString alone; the k-th request, k >= 2,
\* carries the NextToken of the (k-1)-th response; every request carries the
\* query string of the run.
C4_CursorThreading ==
    \A k \in 1..Len(requests) :
        /\ requests[k]["QueryString"] = args.query
        /\ IF k = 1
           THEN DOMAIN requests[k] = {"QueryString"}
           ELSE /\ DOMAIN requests[k] = {"QueryString", "NextToken"}
                /\ HasCursor(responses[k - 1])
                /\ requests[k]["NextToken"] = responses[k - 1]["NextToken"]

\* A third request is out, and the first two responses carried different
\* cursors.
C4_Witness ==
    /\ pc = "wait"
    /\ Len(requests) = 3
    /\ responses[1]["NextToken"] # responses[2]["NextToken"]

\* The positions zip pairs up, and the keys they write.
Aligned(row, columns) == 1..Min(Len(CellsOf(row)), Len(columns))
AlignedNames(row, columns) == {NameOf(columns[k]) : k \in Aligned(row, columns)}

\* C5: flatten returns, without raising, a mapping whose keys are the names
\* of the descriptors at the positions below min(len(cells), len(columns))
\* and no others; the value under a key is the scalar value of the cell at
\* the position that carries the key (the last such position when a name is
\* repeated), None where that cell has no scalar value.
C5_ZipToShortest ==
    fl_calls >= 1 =>
        /\ ~fl_out.raised
        /\ DOMAIN fl_out.value = AlignedNames(fl_row, fl_cols)
        /\ \A k \in Aligned(fl_row, fl_cols) :
              (\A j \in Aligned(fl_row, fl_cols) :
                    j > k => NameOf(fl_cols[j]) # NameOf(fl_cols[k]))
                  => fl_out.value[NameOf(fl_cols[k])] = ScalarOf(CellsOf(fl_row)[k])

\* More descriptors than cells: the unmatched descriptor wrote no key.
C5_Witness ==
    /\ fl_calls >= 1
    /\ Len(fl_cols) = 2
    /\ Len(CellsOf(fl_row)) = 1
    /\ NameOf(fl_cols[1]) # NameOf(fl_cols[2])
    /\ DOMAIN fl_out.value = {NameOf(fl_cols[1])}

\* C6, as stated: every row of the ResultSet has as many entries as the
\* ColumnInfo of its page has descriptors.
C6_RowSizeIsColumnCount ==
    LET src == RowSources(responses)
    IN  \A k \in 1..Len(all_rows) :
            Cardinality(DOMAIN all_rows[k]) = Len(src[k].columns)

\* C6, amended: every row of the ResultSet has as many entries as there are
\* distinct names among the descriptors that have a cell to pair with; that
\* is at most the number of descriptors of its page, and equal to it exactly
\* when the row has a cell for every descriptor and no name is repeated.
C6_RowSizeIsAlignedNames ==
    LET src == RowSources(responses)
    IN  \A k \in 1..Len(all_rows) :
            LET n == Cardinality(DOMAIN all_rows[k])
                cols == src[k].columns
            IN  /\ n = Cardinality(AlignedNames(src[k].row, cols))
                /\ n <= Len(cols)
                /\ n = Len(cols) <=>
                      /\ Len(CellsOf(src[k].row)) >= Len(cols)
                      /\ \A a, b \in 1..Len(cols) :
                            a # b => NameOf(cols[a]) # NameOf(cols[b])

\* A row with fewer entries than its page has descriptors is in the
\* ResultSet.
C6_Witness ==
    /\ all_rows # <<>>
    /\ Cardinality(DOMAIN all_rows[1]) < Len(RowSources(responses)[1].columns)

\* C7, as stated: a run that has ended either failed (the error line on
\* stderr, no JSON on stdout or in the file, status 1) or exited with
\* status 0 having emitted the ResultSet once, to the file with the
\* confirmation line on stdout when --output named a path, else on stdout.
C7_TwoOutcomes ==
    pc = "exit" =>
        \/ /\ status = Bound(1)
           /\ e # Unbound
           /\ stderr = <<ErrorLine(Val(e))>>
           /\ stdout = <<>>
           /\ file = Unbound
        \/ /\ status = Bound(0)
           /\ rows # Unbound
           /\ stderr = <<>>
           /\ IF args.output \notin {None, ""}
              THEN /\ file = Bound(JsonDumps(Val(rows)))
                   /\ stdout = <<WrittenLine(args.output)>>
              ELSE /\ file = Unbound
                   /\ stdout = <<JsonDumps(Val(rows))>>

\* A flattened row: a mapping from names (None for a descriptor without a
\* Name) to scalar values (None for a cell without one).
IsFlatRow(m) ==
    /\ DOMAIN m \subseteq Names \cup {None}
    /\ \A k \in DOMAIN m : m[k] \in Scalars \cup {None}

RowCount(pages) == Len(RowSources(pages))

\* C9: at most one call of client.query is outstanding, and only while
\* run_query waits for it; a request is issued only when every row of every
\* response received so far is in the ResultSet; and every step leaves the
\* ResultSet as it is or extends it at its end.
C9_SequentialAppendOnly ==
    /\ [](/\ outstanding \in {0, 1}
          /\ outstanding = 1 <=> pc = "wait"
          /\ pc = "wait" => Len(all_rows) = RowCount(responses)
          /\ IsPrefix(all_rows, FlattenPages(responses)))
    /\ [][IsPrefix(all_rows, all_rows')]_vars

\* The second request is out and the two rows of the first page are in the
\* ResultSet.
C9_Witness ==
    /\ pc = "wait"
    /\ outstanding = 1
    /\ calls = 2
    /\ Len(all_rows) = 2

\* The collaborator has raised, or its latest response carries no non-empty
\* NextToken.
Stopped ==
    \/ raised # Unbound
    \/ response # Unbound /\ ~HasCursor(Val(response))
\* run_query has returned or raised.
Terminated == pc \in {"emit", "except", "exit"}

\* C10: run_query is over only if the collaborator has raised or answered
\* without a non-empty NextToken; once the collaborator has done so,
\* run_query ends; and as long as it never does, run_query issues request
\* after request.
C10_TerminatesIffStopped ==
    /\ [](Terminated => Stopped)
    /\ Stopped ~> Terminated
    /\ ([]~Stopped) => []<>(pc = "wait")

\* More requests than the bounded service would answer, every response so
\* far with a cursor, and run_query still fetching.
C10_Witness ==
    /\ pc = "wait"
    /\ calls = MaxPages + 1
    /\ ~Stopped

====
